---- MODULE Spec2Model ----
(***************************************************************************)
(* FigureResampler (plotly_resampler/figure_resampler.py): the store of    *)
(* high-frequency series (_hf_data), trace admission (add_trace), the      *)
(* per-trace synchronizer (check_update_trace_data) and the batch          *)
(* synchronizer (check_update_figure_dict).                                *)
(*                                                                         *)
(* Encoding.  A Python str is a sequence of one-character strings.  A      *)
(* position on an axis is an integer counting HALF units (Scale = 2), so   *)
(* that the fractional bounds a zoom produces (k + 0.5) exist; an integer  *)
(* index holds even numbers only.  A timestamp is a wall-clock reading     *)
(* plus a zone name.  Python's None is the value None.                     *)
(***************************************************************************)
EXTENDS Integers, Sequences, FiniteSets, TLC

VARIABLES
    cfg,      \* constructor arguments: _prefix, _suffix, _global_n_shown_samples
    hf_data,  \* self._hf_data: uid -> entry
    data,     \* the figure's traces (figure["data"]), in order
    last      \* observation of the most recent call: arguments and outcome

vars == <<cfg, hf_data, data, last>>

----------------------------------------------------------------------------
(* Bounds *)

MaxTraces == 2   \* traces admitted to one figure
MaxLen    == 3   \* samples in an admitted series
MaxBound  == 5   \* largest start / end of a sync, in half units
default_n_shown_samples == 3  \* the figure-wide budget given to the constructor

(* Encoding constants *)

Scale == 2       \* half units per unit of position
NaN   == 0 - 1   \* the y value np.nan (real values are >= 0)

None == <<"None">>

----------------------------------------------------------------------------
(* Python string primitives used by the code *)

startswith(s, p) == Len(p) <= Len(s) /\ SubSeq(s, 1, Len(p)) = p

endswith(s, p) == Len(p) <= Len(s) /\ SubSeq(s, Len(s) - Len(p) + 1, Len(s)) = p

\* s[k:]
DropFirst(s, k) == SubSeq(s, k + 1, Len(s))

\* s[:-k], k >= 1
DropLast(s, k) == SubSeq(s, 1, Len(s) - k)

RECURSIVE lstrip(_, _)
lstrip(s, chars) ==
    IF s # <<>> /\ Head(s) \in chars THEN lstrip(Tail(s), chars) ELSE s

----------------------------------------------------------------------------
(* Sequence helpers *)

\* the elements of s at the (increasing) positions in idx
RECURSIVE Pick(_, _, _)
Pick(s, idx, i) ==
    IF i > Len(s) THEN <<>>
    ELSE (IF i \in idx THEN <<s[i]>> ELSE <<>>) \o Pick(s, idx, i + 1)

\* a faulty variant of IsSorted: the index is never checked
IsSorted_unchecked(s) == TRUE

\* line 458: index.is_monotonic_increasing
IsSorted(s) == \A i \in 1..(Len(s) - 1) : s[i] <= s[i + 1]

----------------------------------------------------------------------------
(* Bounds of a sync.  A bound is None, a number (kind "num") or a           *)
(* pd.Timestamp (kind "ts") with its zone ("naive" when it has none).       *)

NoBound == [kind |-> "none", tz |-> "naive", t |-> 0]

Num(v) == [kind |-> "num", tz |-> "naive", t |-> v]

Timestamp(z, v) == [kind |-> "ts", tz |-> z, t |-> v]

IsNone(b) == b.kind = "none"

----------------------------------------------------------------------------
(* Range slicer.  A slice is the pair lo, hi of the first and last row of   *)
(* hf_series it keeps (1-based, empty when hi < lo).                        *)

Rows(lo, hi) == [i \in 1..(IF hi < lo THEN 0 ELSE hi - lo + 1) |-> lo + i - 1]

\* np.searchsorted(index, v), side="left": rows strictly below v
searchsorted(pos, v) == Cardinality({i \in 1..Len(pos) : pos[i] < v})

\* Python 3 round(): to the nearest integer, a tie to the even one
round(v) ==
    IF v % Scale = 0 THEN v
    ELSE IF ((v - 1) \div Scale) % 2 = 0 THEN v - 1 ELSE v + 1

\* lines 150-159: the slice on a "linear" axis, hf_series.iloc[start_idx:end_idx]
slice_linear(hf_series, start, end) ==
    LET pos  == hf_series.pos
        s0   == IF IsNone(start) THEN pos[1] ELSE start.t
        e0   == IF IsNone(end) THEN pos[Len(pos)] ELSE end.t
        isInt == hf_series.index_kind = "int"
        s1   == IF isInt THEN round(s0) ELSE s0
        e1   == IF isInt THEN round(e0) ELSE e0
        start_idx == searchsorted(pos, s1)
        end_idx   == searchsorted(pos, e1)
    IN  [err |-> "ok", rows |-> Rows(start_idx + 1, end_idx)]

\* a faulty variant of to_same_tz: no assert, the bound is used as it is given
to_same_tz_unchecked(ts, reference_tz) == [err |-> "ok", ts |-> ts]

\* a faulty variant of to_same_tz: the bound is converted (tz_convert) to the
\* series' zone, its wall-clock reading moves by the offset between the zones
to_same_tz_converted(ts, reference_tz) ==
    IF IsNone(ts) \/ ts.tz = reference_tz THEN [err |-> "ok", ts |-> ts]
    ELSE [err |-> "ok", ts |-> Timestamp(reference_tz, ts.t + Scale)]

\* lines 282-296: a bound brought to the series' zone, or the failed assert
to_same_tz(ts, reference_tz) ==
    IF IsNone(ts) THEN [err |-> "ok", ts |-> ts]
    ELSE IF reference_tz # "naive"
         THEN IF ts.tz # "naive"
              THEN IF ts.tz = reference_tz
                   THEN [err |-> "ok", ts |-> ts]
                   ELSE [err |-> "AssertionError", ts |-> ts]
              ELSE [err |-> "ok", ts |-> Timestamp(reference_tz, ts.t)]
         ELSE IF ts.tz # "naive"
              THEN [err |-> "ok", ts |-> Timestamp("naive", ts.t)]
              ELSE [err |-> "ok", ts |-> ts]

\* line 298: hf_series[a:b], a label slice of a sorted DatetimeIndex, both
\* ends included
_slice_time(hf_series, t_start, t_stop) ==
    LET pos == hf_series.pos
        a   == to_same_tz(t_start, hf_series.tz)
        b   == to_same_tz(t_stop, hf_series.tz)
        lo  == IF IsNone(a.ts) THEN 1
               ELSE Cardinality({i \in 1..Len(pos) : pos[i] < a.ts.t}) + 1
        hi  == IF IsNone(b.ts) THEN Len(pos)
               ELSE Cardinality({i \in 1..Len(pos) : pos[i] <= b.ts.t})
    IN  IF a.err # "ok" THEN [err |-> a.err, rows |-> <<>>]
        ELSE IF b.err # "ok" THEN [err |-> b.err, rows |-> <<>>]
        ELSE [err |-> "ok", rows |-> Rows(lo, hi)]

\* lines 144-159
slice(entry, start, end) ==
    IF entry.axis_type = "date"
    THEN _slice_time(entry.hf_series, start, end)
    ELSE slice_linear(entry.hf_series, start, end)

----------------------------------------------------------------------------
(* Name decoration, lines 161-171 *)

update_name(name, aggregated, prefix, suffix) ==
    IF aggregated
    THEN LET n1 == (IF startswith(name, prefix) THEN <<>> ELSE prefix) \o name
         IN  n1 \o (IF ~endswith(n1, suffix) THEN suffix ELSE <<>>)
    ELSE LET t1 == IF Len(prefix) > 0 /\ startswith(name, prefix)
                   THEN DropFirst(name, Len(prefix)) ELSE name
         IN  IF Len(suffix) > 0 /\ endswith(name, suffix)
             THEN DropLast(name, Len(suffix)) ELSE t1

----------------------------------------------------------------------------
(* Downsampler: EveryNthPoint, rows kept at the stride ceil(len / n_out)   *)

EveryNthPoint(rows, n_out) ==
    LET n      == Len(rows)
        stride == (n + n_out - 1) \div n_out
        m      == (n + stride - 1) \div stride
    IN  [k \in 1..m |-> rows[1 + (k - 1) * stride]]

downsample(rows, n_out) ==
    IF Len(rows) > n_out THEN EveryNthPoint(rows, n_out) ELSE rows

\* the stride ceil(len / n_out) does not exist for a budget of zero: the
\* reduction fails
downsample_fails(rows, n_out) == Len(rows) > n_out /\ n_out = 0

----------------------------------------------------------------------------
(* Traces and entries.                                                      *)
(*   trace: [uid, type, name, x, y, text, hovertext, yaxis]                 *)
(*   entry: [max_n_samples, hf_series, axis_type, downsampler, hovertext]   *)
(*   hf_series: [index_kind, tz, pos, val], rows in input order             *)
(*   hovertext: [form, v], form the Python type holding it                  *)

NoHover == [form |-> "None", v |-> <<>>]

\* a faulty variant of _query_hf_data: a uid the store does not hold falls back on an
\* entry of the store
_query_hf_data_fallback(hf, trace) ==
    IF trace.uid \in DOMAIN hf THEN <<hf[trace.uid]>>
    ELSE IF DOMAIN hf # {} THEN <<hf[CHOOSE u \in DOMAIN hf : TRUE]>>
    ELSE <<>>

\* lines 96-106: Optional[dict] as a sequence of at most one entry
_query_hf_data(hf, trace) ==
    IF trace.uid \in DOMAIN hf THEN <<hf[trace.uid]>> ELSE <<>>

\* lines 181-192: the hovertext of the rows kept, joined on position
\* (merge_asof, direction="nearest": every kept position is in the index)
merge_asof(hf_series, rows, hovertext) ==
    LET pos == hf_series.pos
        at(p) == CHOOSE j \in 1..Len(pos) :
                    /\ pos[j] = p
                    /\ \A k \in 1..Len(pos) : pos[k] = p => k <= j
    IN  [form |-> "ndarray", v |-> [k \in 1..Len(rows) |-> hovertext.v[at(pos[rows[k]])]]]

\* a faulty variant of resample: the slice written to the trace as it is
resample_unreduced(hf_d, rows) == rows

\* lines 173-177: the sliced rows reduced to the entry's budget
resample(hf_d, rows) == downsample(rows, hf_d.max_n_samples)

\* lines 142-194; rows reports the slice handed to the downsampler
check_update_trace_data(hf, trace, start, end, prefix, suffix) ==
    LET q == _query_hf_data(hf, trace) IN
    IF q = <<>> THEN [err |-> "ok", trace |-> trace, rows |-> <<>>]
    ELSE
    LET hf_d == q[1]
        sl   == slice(hf_d, start, end)
        n    == Len(sl.rows)
        s_res == resample(hf_d, sl.rows)
        hov  == IF hf_d.hovertext.form = "Series"
                THEN merge_asof(hf_d.hf_series, s_res, hf_d.hovertext)
                ELSE hf_d.hovertext
    IN  IF sl.err # "ok"
        THEN [err |-> sl.err, trace |-> trace, rows |-> <<>>]
        ELSE IF trace.name = None
        THEN [err |-> "AttributeError", trace |-> trace, rows |-> sl.rows]
        ELSE IF downsample_fails(sl.rows, hf_d.max_n_samples)
        THEN \* lines 162-171 have already renamed the trace
             [err |-> "DownsamplerError", rows |-> sl.rows,
              trace |-> [trace EXCEPT
                  !.name = update_name(trace.name, n > hf_d.max_n_samples,
                                       prefix, suffix)]]
        ELSE [err |-> "ok",
              rows |-> sl.rows,
              trace |-> [trace EXCEPT
                  !.name = update_name(trace.name, n > hf_d.max_n_samples,
                                       prefix, suffix),
                  !.x = [k \in 1..Len(s_res) |-> hf_d.hf_series.pos[s_res[k]]],
                  !.y = [k \in 1..Len(s_res) |-> hf_d.hf_series.val[s_res[k]]],
                  !.hovertext = hov]]

----------------------------------------------------------------------------
(* Batch synchronizer, lines 225-251 *)

xaxis(g) == <<"x", "a", "x", "i", "s">> \o (IF g = 1 THEN <<>> ELSE <<"2">>)

yaxis_key(g) == <<"y", "a", "x", "i", "s">> \o (IF g = 1 THEN <<>> ELSE <<"2">>)

\* figure["layout"] of a figure of two subplots, one x-axis each
layout ==
    [k \in {yaxis_key(1), yaxis_key(2)} |->
        [anchor |-> IF k = yaxis_key(1) THEN <<"x">> ELSE <<"x", "2">>]]

\* line 227
xaxis_filter_short(xaxis_filter) ==
    <<"x">> \o lstrip(xaxis_filter,
                      {"x", "a", "i", "s", "_", "f", "l", "t", "e", "r"})

\* lines 232-237: the x-anchor the code reads for a trace
x_anchor_trace(trace, xaxis_filter) ==
    LET y_axis == IF trace.yaxis = None
                  THEN <<"y">> \o DropFirst(xaxis_filter, 1)
                  ELSE <<"y", "a", "x", "i", "s">> \o DropFirst(trace.yaxis, 1)
    IN  layout[y_axis].anchor

\* lines 245-250: TRUE when the loop skips the trace
skipped(trace, xaxis_filter) ==
    LET short  == xaxis_filter_short(xaxis_filter)
        anchor == x_anchor_trace(trace, xaxis_filter)
    IN  \/ short = <<"x">> /\ anchor \notin {None, <<"x">>}
        \/ short # <<"x">> /\ anchor # short

\* lines 229-251: the loop from trace i on; an exception leaves the loop, the
\* traces already rewritten stay rewritten (the dict is updated in place)
RECURSIVE check_update_figure_dict(_, _, _, _, _, _, _, _)
check_update_figure_dict(hf, figure, i, start, stop, xaxis_filter, prefix, suffix) ==
    IF i > Len(figure) THEN [err |-> "ok", data |-> figure, visited |-> {}]
    ELSE IF xaxis_filter # None /\ skipped(figure[i], xaxis_filter)
    THEN check_update_figure_dict(hf, figure, i + 1, start, stop, xaxis_filter,
                                  prefix, suffix)
    ELSE LET r == check_update_trace_data(hf, figure[i], start, stop, prefix, suffix)
         IN  IF r.err # "ok"
             THEN [err |-> r.err, data |-> [figure EXCEPT ![i] = r.trace],
                   visited |-> {i}]
             ELSE LET rest == check_update_figure_dict(
                                  hf, [figure EXCEPT ![i] = r.trace], i + 1,
                                  start, stop, xaxis_filter, prefix, suffix)
                  IN  [rest EXCEPT !.visited = @ \cup {i}]

----------------------------------------------------------------------------
(* The Dash callback update_graph, lines 530-564.  An event                 *)
(* (changed_layout) is                                                      *)
(*   [start, stop, autorange, other]                                        *)
(* start[g] / stop[g]: the value under "xaxis<g>.range[0]" / "...range[1]", *)
(* NoBound when the event lacks the key; autorange: the axes g with a key   *)
(* "xaxis<g>.autorange"; other: the event holds keys of no x-axis.          *)

Axes == {1, 2}

\* line 531: an empty dict (and None) is falsy
truthy(event) ==
    \/ \E g \in Axes : ~IsNone(event.start[g]) \/ ~IsNone(event.stop[g])
    \/ event.autorange # {}
    \/ event.other

\* lines 538-550: the axes whose key matches, in the order of the sorted keys
\* ("xaxis.range[0]" sorts before "xaxis2.range[0]")
get_matches(values) ==
    LET S == {g \in Axes : ~IsNone(values[g])}
    IN  [k \in 1..Cardinality(S) |->
            CHOOSE g \in S : Cardinality({h \in S : h < g}) = k - 1]

\* lines 555-560: the batch sync of the pair of x-axis g
sync_pair(hf, figure, event, g, prefix, suffix) ==
    check_update_figure_dict(hf, figure, 1, event.start[g], event.stop[g],
                             xaxis(g), prefix, suffix)

\* the arguments of the batch sync of the pair of x-axis g
pair_call(event, g) ==
    [xaxis_filter |-> xaxis(g), start |-> event.start[g], stop |-> event.stop[g]]

RECURSIVE update_ranges(_, _, _, _, _, _)

\* line 552: the loop goes on after the batch sync c gave r; an exception of
\* the sync leaves the callback
next_pair(r, c, hf, event, k, prefix, suffix) ==
    IF r.err # "ok"
    THEN [err |-> r.err, data |-> r.data, calls |-> <<c>>]
    ELSE [update_ranges(hf, r.data, event, k + 1, prefix, suffix)
             EXCEPT !.calls = <<c>> \o @]

\* lines 552-560: the pairs zipped from the two sorted lists, from pair k on;
\* calls lists the batch syncs made
update_ranges(hf, figure, event, k, prefix, suffix) ==
    IF k > Len(get_matches(event.start)) \/ k > Len(get_matches(event.stop))
    THEN [err |-> "ok", data |-> figure, calls |-> <<>>]
    ELSE IF get_matches(event.start)[k] # get_matches(event.stop)[k]
    THEN [err |-> "AssertionError", data |-> figure, calls |-> <<>>]  \* line 554
    ELSE next_pair(sync_pair(hf, figure, event, get_matches(event.start)[k],
                             prefix, suffix),
                   pair_call(event, get_matches(event.start)[k]),
                   hf, event, k, prefix, suffix)

\* line 563: the batch sync of the whole figure
sync_all(r) ==
    [err |-> r.err, data |-> r.data,
     calls |-> <<[xaxis_filter |-> None, start |-> NoBound, stop |-> NoBound]>>]

\* a faulty variant of update_graph: every event re-synchronizes the figure
update_graph_eager(hf, current_graph, changed_layout, prefix, suffix) ==
    sync_all(check_update_figure_dict(hf, current_graph, 1, NoBound, NoBound,
                                      None, prefix, suffix))

\* lines 530-564
update_graph(hf, current_graph, changed_layout, prefix, suffix) ==
    IF ~truthy(changed_layout)
    THEN [err |-> "ok", data |-> current_graph, calls |-> <<>>]
    ELSE IF /\ Len(get_matches(changed_layout.start)) > 0
            /\ Len(get_matches(changed_layout.stop)) > 0
    THEN update_ranges(hf, current_graph, changed_layout, 1, prefix, suffix)
    ELSE IF changed_layout.autorange # {}
    THEN update_graph_eager(hf, current_graph, changed_layout, prefix, suffix)
    ELSE [err |-> "ok", data |-> current_graph, calls |-> <<>>]

\* a property the trace does not hold: a plotly trace keeps no key for a
\* property set to None, so the dict sent to the front end (line 523) lacks it
Absent == [form |-> "absent", v |-> <<>>]

\* line 523: the trace as the dict the front end receives
to_dict(trace) ==
    [trace EXCEPT !.hovertext = IF @.form = "None" THEN Absent ELSE @,
                  !.text = IF @.form = "None" THEN Absent ELSE @]

----------------------------------------------------------------------------
(* Trace admission, lines 383-499.  The argument a holds the call:          *)
(*   [type, name, hf_x, hf_y, hf_hovertext, max_n_samples, limit_to_view,   *)
(*    yaxis, trace_kwargs]                                                  *)
(*   hf_x: [container, index_kind, tz, pos]   hf_y: [container, val]        *)
(* where container is the Python type of the data after lines 392-403: a    *)
(* plain list given to the trace comes back from trace["x"] as a tuple.     *)

Digit == <<"0", "1", "2", "3", "4", "5", "6", "7", "8", "9">>

\* a faulty variant of trace_name: the name counts the new trace too
trace_name_next(k) == <<"t", "r", "a", "c", "e", " ", Digit[k + 2]>>

\* line 465: f"trace {k}"
trace_name(k) == <<"t", "r", "a", "c", "e", " ", Digit[k + 1]>>

UidPool == <<"u1", "u2", "u3", "u4", "u5", "u6">>

\* a faulty variant of uuid4: every call gives the same id
uuid4_constant(hf, figure) == UidPool[1]

\* line 388: str(uuid4()), an id no trace and no entry carries yet
uuid4(hf, figure) ==
    LET used == DOMAIN hf \cup {figure[i].uid : i \in 1..Len(figure)}
        k    == CHOOSE j \in 1..Len(UidPool) :
                    /\ UidPool[j] \notin used
                    /\ \A m \in 1..(j - 1) : UidPool[m] \in used
    IN  UidPool[k]

\* lines 418-431: NaN removal inside try / except: pass.  Indexing with the
\* mask raises on a tuple and on a length that differs from the mask's; the
\* statements before the one that raised keep their effect.
remove_nans(hf_x, hf_y, hf_hovertext) ==
    LET n     == Len(hf_y.val)
        keep  == {i \in 1..n : hf_y.val[i] # NaN}
        mask_ok == hf_y.container # "None"
        x_ok  == /\ mask_ok
                 /\ hf_x.container \in {"ndarray", "DatetimeIndex"}
                 /\ Len(hf_x.pos) = n
        y_ok  == x_ok /\ hf_y.container = "ndarray"
        h_ok  == /\ y_ok
                 /\ hf_hovertext.form \in {"list", "ndarray", "Series"}
                 /\ Len(hf_hovertext.v) = n
    IN  [hf_x |-> IF x_ok THEN [hf_x EXCEPT !.pos = Pick(@, keep, 1)] ELSE hf_x,
         hf_y |-> IF y_ok THEN [hf_y EXCEPT !.val = Pick(@, keep, 1)] ELSE hf_y,
         hf_hovertext |->
             IF h_ok THEN [form |-> "ndarray", v |-> Pick(hf_hovertext.v, keep, 1)]
             ELSE hf_hovertext]

\* lines 383-384
effective_max(a, c) ==
    IF a.max_n_samples = <<>> THEN c.global_n_shown_samples
    ELSE a.max_n_samples[1]

\* lines 444-447: the store-or-pass-through decision
stores(n_samples, max_n_samples, limit_to_view) ==
    n_samples > max_n_samples \/ limit_to_view

\* a faulty variant of store_entry: the store is rebuilt around the new entry
store_entry_rebuilt(hf, uid, entry) == [u \in {uid} |-> entry]

\* lines 472-478: self._hf_data[trace.uid] = {...}
store_entry(hf, uid, entry) ==
    [u \in DOMAIN hf \cup {uid} |-> IF u = uid THEN entry ELSE hf[u]]

\* lines 383-499; ret is what the call returns: "figure" (the figure, as
\* super().add_trace returns it), "None", or "raised"
add_trace(hf, figure, a, c) ==
    LET max_n_samples == effective_max(a, c)
        uid   == uuid4(hf, figure)
        t0    == [uid |-> uid, type |-> a.type, name |-> a.name,
                  x |-> a.hf_x.pos, y |-> a.hf_y.val, text |-> NoHover,
                  hovertext |-> NoHover, yaxis |-> a.yaxis]
        fail(e) == [err |-> e, hf |-> hf, data |-> figure, rows |-> <<>>,
                    ret |-> "raised"]
    IN
    IF a.type \notin {"scatter", "scattergl"}
    THEN \* lines 491-499
         IF a.hf_x.container = "None" THEN fail("TypeError")
         ELSE IF Len(a.hf_x.pos) = 0 THEN fail("AssertionError")   \* line 497
         \* line 498, len(trace["x"] == len(trace["y"])): a tuple compared with
         \* an int is the bool False, which has no len()
         ELSE IF a.hf_x.container = "tuple" THEN fail("TypeError")
         ELSE IF a.trace_kwargs # "valid" THEN fail("TypeError")     \* line 499
         ELSE [err |-> "ok", hf |-> hf, data |-> Append(figure, t0), rows |-> <<>>,
               ret |-> "figure"]                                     \* line 499
    ELSE
    LET r     == remove_nans(a.hf_x, a.hf_y, a.hf_hovertext)
        hf_x  == r.hf_x
        hf_y  == r.hf_y
        n_samples == Len(hf_x.pos)
        hov   == IF r.hf_hovertext.form = "ndarray"
                 THEN [r.hf_hovertext EXCEPT !.form = "Series"]
                 ELSE r.hf_hovertext
        hf_series == [index_kind |-> hf_x.index_kind, tz |-> hf_x.tz,
                      pos |-> hf_x.pos, val |-> hf_y.val]
        named == IF t0.name = None
                 THEN [t0 EXCEPT !.name = trace_name(Len(figure))] ELSE t0
        entry == [max_n_samples |-> max_n_samples,
                  hf_series |-> hf_series,
                  axis_type |-> IF hf_x.container = "DatetimeIndex"
                                THEN "date" ELSE "linear",
                  downsampler |-> "EveryNthPoint",
                  hovertext |-> hov]
        hf1   == store_entry(hf, uid, entry)
        first == check_update_trace_data(hf1, named, NoBound, NoBound,
                                         c.prefix, c.suffix)
    IN
    IF hf_x.container = "None" \/ hf_y.container = "None" THEN fail("TypeError")
    ELSE IF Len(hf_x.pos) = 0 THEN fail("AssertionError")           \* line 433
    ELSE IF Len(hf_x.pos) # Len(hf_y.val) THEN fail("AssertionError") \* line 434
    ELSE IF r.hf_hovertext.form = "ndarray" /\ Len(r.hf_hovertext.v) # n_samples
    THEN fail("ValueError")                                         \* line 440
    ELSE IF stores(n_samples, max_n_samples, a.limit_to_view)
    THEN IF ~IsSorted(hf_x.pos) THEN fail("AssertionError")         \* line 458
         ELSE IF first.err # "ok"
         THEN [err |-> first.err, hf |-> hf1, data |-> figure, rows |-> first.rows,
               ret |-> "raised"]
         ELSE IF a.trace_kwargs # "valid"                            \* line 484
         THEN [err |-> "TypeError", hf |-> hf1, data |-> figure,
               rows |-> first.rows, ret |-> "raised"]
         ELSE [err |-> "ok", hf |-> hf1, data |-> Append(figure, first.trace),
               rows |-> first.rows, ret |-> "None"]                  \* line 484
    ELSE IF a.trace_kwargs # "valid" THEN fail("TypeError")          \* line 490
    ELSE \* lines 486-490
         [err |-> "ok", hf |-> hf, rows |-> <<>>, ret |-> "figure",  \* line 490
          data |-> Append(figure, [t0 EXCEPT !.x = hf_x.pos, !.y = hf_y.val,
                                             !.text = hov])]

----------------------------------------------------------------------------
(* Inputs *)

Zones == {"A", "B"}

\* positions of n samples, one unit apart, the first at first
Positions(n, first) == [i \in 1..n |-> first + Scale * (i - 1)]

\* values of n samples; nan_at = 0 for none, else the row holding NaN
Values(n, nan_at) == [i \in 1..n |-> IF i = nan_at THEN NaN ELSE 10 * i]

IntX(n)     == [container |-> "ndarray", index_kind |-> "int", tz |-> "naive",
                pos |-> Positions(n, 0)]
FloatX(n)   == [container |-> "ndarray", index_kind |-> "float", tz |-> "naive",
                pos |-> Positions(n, 1)]
DateX(n, z) == [container |-> "DatetimeIndex", index_kind |-> "date", tz |-> z,
                pos |-> Positions(n, 0)]
TupleX(n)   == [container |-> "tuple", index_kind |-> "int", tz |-> "naive",
                pos |-> Positions(n, 0)]

Y(container, n, nan_at) == [container |-> container, val |-> Values(n, nan_at)]

Call(type, name, hf_x, hf_y, hov, max, ltv, yaxis) ==
    [type |-> type, name |-> name, hf_x |-> hf_x, hf_y |-> hf_y,
     hf_hovertext |-> hov, max_n_samples |-> max, limit_to_view |-> ltv,
     yaxis |-> yaxis, trace_kwargs |-> "valid"]

\* the call c with a keyword (or a row / col) that go.Figure.add_trace rejects
RejectedKwargs(c) == [c EXCEPT !.trace_kwargs = "invalid"]

YAxes == {None, <<"y">>, <<"y", "2">>}

\* the calls of a figure with several traces: numeric traces on either
\* subplot, stored (budget 1) or passed through (the figure's budget),
\* temporal traces in either zone, and a trace of another kind
FigureCalls ==
    {Call("scatter", <<"n">>, IntX(MaxLen), Y("ndarray", MaxLen, 0), NoHover,
          m, FALSE, ya) : m \in {<<>>, <<1>>}, ya \in YAxes}
    \cup {Call("scatter", <<"n">>, DateX(MaxLen, z), Y("ndarray", MaxLen, 0),
               NoHover, <<1>>, FALSE, None) : z \in Zones}
    \cup {Call("bar", None, IntX(1), Y("ndarray", 1, 0), NoHover, <<>>, FALSE, None)}

\* the calls that vary what admission reads: kind, name, container of x and
\* of y, length, the row holding NaN, budget, limit_to_view
AdmitCalls ==
    {Call(ty, nm, x, Y(yc, Len(x.pos), k), NoHover, m, ltv, None) :
        ty \in {"scatter", "bar"}, nm \in {None, <<"n">>},
        x \in UNION {{IntX(n), TupleX(n), DateX(n, "A")} : n \in 1..MaxLen},
        yc \in {"ndarray", "tuple"}, k \in 0..MaxLen,
        m \in {<<>>, <<1>>}, ltv \in BOOLEAN}

\* per-point hovertext of n points held in a Python type
Hover(form, n) == [form |-> form, v |-> [i \in 1..n |-> Digit[i + 1]]]

\* x or y that was not given: trace["x"] is None
NoX == [container |-> "None", index_kind |-> "int", tz |-> "naive", pos |-> <<>>]
NoY == [container |-> "None", val |-> <<>>]

\* positions out of order: the first two samples swapped
UnsortedX(n) ==
    [IntX(n) EXCEPT !.pos = [i \in 1..n |-> IF i = 1 THEN Scale
                                            ELSE IF i = 2 THEN 0 ELSE @[i]]]

\* calls with per-point hovertext: its Python type and its length vary
HoverCalls ==
    {Call("scatter", <<"n">>, IntX(n), Y("ndarray", n, k), Hover(f, h), <<1>>,
          ltv, None) :
        n \in 1..MaxLen, k \in 0..MaxLen, h \in 1..MaxLen,
        f \in {"list", "tuple", "ndarray"}, ltv \in BOOLEAN}
    \cup {Call("scatter", <<"n">>, IntX(n), Y("ndarray", n, k),
               Hover("Series", n), <<1>>, ltv, None) :
            n \in 1..MaxLen, k \in 0..MaxLen, ltv \in BOOLEAN}

\* calls without data, with empty data, with x and y of different lengths
\* and with positions out of order
EdgeCalls ==
    {Call(ty, <<"n">>, x, y, NoHover, <<1>>, FALSE, None) :
        ty \in {"scatter", "bar"},
        x \in {NoX, IntX(0), IntX(1), IntX(2)},
        y \in {NoY, Y("ndarray", 0, 0), Y("ndarray", 1, 0)}}
    \cup {Call("scatter", <<"n">>, UnsortedX(n), Y("ndarray", n, k), NoHover, m,
               ltv, None) :
            n \in 2..MaxLen, k \in 0..MaxLen, m \in {<<>>, <<1>>}, ltv \in BOOLEAN}

\* calls with a budget of zero
ZeroBudgetCalls ==
    {Call("scatter", <<"n">>, x, Y("ndarray", Len(x.pos), 0), NoHover, <<0>>,
          ltv, None) :
        x \in UNION {{IntX(n), DateX(n, "A")} : n \in 1..MaxLen}, ltv \in BOOLEAN}

\* calls with a keyword that go.Figure.add_trace rejects: a trace that is to
\* be stored, one that is passed through and one of another kind
RejectedCalls ==
    {RejectedKwargs(Call(ty, <<"n">>, IntX(MaxLen), Y("ndarray", MaxLen, 0),
                         NoHover, m, FALSE, None)) :
        ty \in {"scatter", "bar"}, m \in {<<>>, <<1>>}}

\* the bounds of a zoom on a figure with several traces
FigureBounds ==
    {<<NoBound, NoBound>>, <<Num(Scale), Num(MaxBound)>>}
    \cup {<<Timestamp(z, Scale), Timestamp(z, MaxBound)>> : z \in Zones}

Config(prefix, suffix) ==
    [prefix |-> prefix, suffix |-> suffix,
     global_n_shown_samples |-> default_n_shown_samples]

\* the default decoration (a prefix, no suffix) and one with both
FigureConfigs == {Config(<<"P">>, <<>>), Config(<<"P">>, <<"S">>)}

\* the calls that vary what the synchronizer reads: axis, length, budget,
\* limit_to_view, hovertext
SyncCalls ==
    {Call("scatter", <<"n">>, x, Y("ndarray", Len(x.pos), 0), h, m, ltv, None) :
        x \in UNION {{IntX(n), FloatX(n), DateX(n, "A")} : n \in 1..MaxLen},
        h \in {NoHover}, m \in {<<>>, <<1>>}, ltv \in BOOLEAN}
    \* and a name that itself begins with the prefix "P"
    \cup {Call("scatter", <<"P", "n">>, IntX(MaxLen), Y("ndarray", MaxLen, 0),
               NoHover, <<1>>, FALSE, None)}

Stamp(kind, z, v) == IF kind = "num" THEN Num(v) ELSE Timestamp(z, v)

\* every pair start <= end of bounds of one kind, each possibly absent
Ranges(kind, z) ==
    {<<a, b>> : a \in {NoBound} \cup {Stamp(kind, z, v) : v \in 0..MaxBound},
                b \in {NoBound} \cup {Stamp(kind, z, v) : v \in 0..MaxBound}}

SyncBounds ==
    {r \in Ranges("num", "naive") \cup Ranges("ts", "naive") \cup Ranges("ts", "A") :
        IsNone(r[1]) \/ IsNone(r[2]) \/ r[1].t <= r[2].t}

SyncConfigs ==
    {Config(<<"P">>, <<>>), Config(<<"P">>, <<"S">>), Config(<<>>, <<"S">>),
     Config(<<"P">>, <<"P">>)}

\* a trace the figure held before it was wrapped: it never got a uid
RawTrace ==
    [uid |-> "None", type |-> "scatter", name |-> <<"r">>, x |-> Positions(1, 0),
     y |-> Values(1, 0), text |-> NoHover, hovertext |-> NoHover, yaxis |-> None]

----------------------------------------------------------------------------
(* State machine *)

NoCall == [op |-> "init", err |-> "ok", i |-> 0, start |-> NoBound,
           stop |-> NoBound, xaxis_filter |-> None, visited |-> {},
           rows |-> <<>>, call |-> <<>>, ret |-> "None", event |-> <<>>,
           calls |-> <<>>]

Init ==
    /\ cfg \in FigureConfigs
    /\ hf_data = [u \in {} |-> 0]
    /\ data \in {<<>>, <<RawTrace>>}
    /\ last = NoCall

\* the docstring of check_update_trace_data, lines 135-139: start and end are
\* of the type of the axis they come from
Compatible(entry, b) ==
    \/ IsNone(b)
    \/ b.kind = "ts" /\ entry.axis_type = "date"
    \/ b.kind = "num" /\ entry.axis_type = "linear"

AddTrace(limit, calls) ==
    /\ Len(data) < limit
    /\ Cardinality(DOMAIN hf_data) < limit
    /\ \E a \in calls :
        LET r == add_trace(hf_data, data, a, cfg) IN
        /\ hf_data' = r.hf
        /\ data' = r.data
        /\ last' = [NoCall EXCEPT !.op = "add_trace", !.err = r.err,
                                  !.i = IF r.err = "ok" THEN Len(r.data) ELSE 0,
                                  !.rows = r.rows, !.call = <<a>>,
                                  !.ret = r.ret]
    /\ UNCHANGED cfg

Sync(bounds) ==
    \E i \in 1..Len(data), b \in bounds :
        LET r == check_update_trace_data(hf_data, data[i], b[1], b[2],
                                         cfg.prefix, cfg.suffix) IN
        /\ \A u \in DOMAIN hf_data :
              data[i].uid = u => Compatible(hf_data[u], b[1]) /\ Compatible(hf_data[u], b[2])
        /\ data' = [data EXCEPT ![i] = r.trace]
        /\ last' = [NoCall EXCEPT !.op = "sync", !.err = r.err, !.i = i,
                                  !.start = b[1], !.stop = b[2],
                                  !.rows = r.rows]
        /\ UNCHANGED <<cfg, hf_data>>

Batch(bounds) ==
    \E b \in bounds, f \in {None, xaxis(1), xaxis(2)} :
        LET r == check_update_figure_dict(hf_data, data, 1, b[1], b[2], f,
                                          cfg.prefix, cfg.suffix) IN
        /\ data # <<>>
        /\ \A u \in DOMAIN hf_data :
              Compatible(hf_data[u], b[1]) /\ Compatible(hf_data[u], b[2])
        /\ data' = r.data
        /\ last' = [NoCall EXCEPT !.op = "batch", !.err = r.err,
                                  !.start = b[1], !.stop = b[2],
                                  !.xaxis_filter = f, !.visited = r.visited]
        /\ UNCHANGED <<cfg, hf_data>>

(* A figure of several traces *)

AddTraceFigure == AddTrace(MaxTraces, FigureCalls)
SyncFigure     == Sync(FigureBounds)
BatchFigure    == Batch(FigureBounds)

Next == AddTraceFigure \/ SyncFigure \/ BatchFigure

Spec == Init /\ [][Next]_vars

(* A figure of one trace, every range of the view *)

InitSync ==
    /\ cfg \in SyncConfigs
    /\ hf_data = [u \in {} |-> 0]
    /\ data = <<>>
    /\ last = NoCall

AddTraceSync == AddTrace(1, SyncCalls)
SyncSync     == Sync(SyncBounds)
BatchSync    == Batch(FigureBounds)

NextSync == AddTraceSync \/ SyncSync \/ BatchSync

SpecSync == InitSync /\ [][NextSync]_vars

(* A figure of one trace, every form of the admitted data *)

AddTraceAdmit ==
    AddTrace(1, AdmitCalls \cup HoverCalls \cup EdgeCalls \cup ZeroBudgetCalls
                \cup RejectedCalls)
SyncAdmit     == Sync(FigureBounds)
BatchAdmit    == Batch(FigureBounds)

NextAdmit == AddTraceAdmit \/ SyncAdmit \/ BatchAdmit

SpecAdmit == Init /\ [][NextAdmit]_vars

(* A figure of one temporal trace, bounds of every zone *)

AnyZone == {"naive"} \cup Zones

\* temporal series of every length, naive and in every zone, always stored
SliceCalls ==
    {Call("scatter", <<"n">>, DateX(n, z), Y("ndarray", n, 0), NoHover, <<1>>,
          TRUE, None) : n \in 1..MaxLen, z \in AnyZone}

\* start and end each absent or a timestamp, naive or of any zone
SliceBounds ==
    LET B == {NoBound} \cup {Timestamp(z, v) : z \in AnyZone, v \in 0..MaxBound}
    IN  {r \in B \X B : IsNone(r[1]) \/ IsNone(r[2]) \/ r[1].t <= r[2].t}

InitSlice ==
    /\ cfg = Config(<<"P">>, <<>>)
    /\ hf_data = [u \in {} |-> 0]
    /\ data = <<>>
    /\ last = NoCall

AddTraceSlice == AddTrace(1, SliceCalls)
SyncSlice     == Sync(SliceBounds)

NextSlice == AddTraceSlice \/ SyncSlice

SpecSlice == InitSlice /\ [][NextSlice]_vars

(* A figure served by the Dash app: traces are added, show_dash hands the   *)
(* figure to the front end, then the callback runs on relayout events; from *)
(* then on data is the figure the front end holds                           *)

\* numeric traces: stored with budget 1 on either subplot, stored whole by
\* limit_to_view, and traces without a name, stored and passed through
DashCalls ==
    {Call("scatter", <<"n">>, IntX(MaxLen), Y("ndarray", MaxLen, 0), NoHover,
          <<1>>, FALSE, ya) : ya \in {None, <<"y", "2">>}}
    \cup {Call("scatter", <<"n">>, IntX(MaxLen), Y("ndarray", MaxLen, 0), NoHover,
               <<>>, TRUE, <<"y", "2">>)}
    \cup {Call("scatter", None, IntX(MaxLen), Y("ndarray", MaxLen, 0), NoHover,
               m, FALSE, None) : m \in {<<>>, <<1>>}}

\* what an event may hold for the x-axis g: nothing, one end of the range, or
\* both ends
AxisKeys(g) ==
    LET lo == IF g = 1 THEN Num(Scale) ELSE Num(0)
        hi == IF g = 1 THEN Num(MaxBound) ELSE Num(Scale)
    IN  {<<NoBound, NoBound>>, <<lo, NoBound>>, <<NoBound, hi>>, <<lo, hi>>}

\* the relayout events: per x-axis the keys of its range, an autorange key
\* of the first axis or none, and the events of no x-axis key: the empty one
\* and one of other keys only
DashEvents ==
    {[start |-> <<k1[1], k2[1]>>, stop |-> <<k1[2], k2[2]>>, autorange |-> au,
      other |-> FALSE] : k1 \in AxisKeys(1), k2 \in AxisKeys(2), au \in {{}, {1}}}
    \cup {[start |-> <<NoBound, NoBound>>, stop |-> <<NoBound, NoBound>>,
           autorange |-> {}, other |-> TRUE]}

Shown == last.op \in {"show_dash", "update_graph"}

InitDash ==
    /\ cfg = Config(<<"P">>, <<>>)
    /\ hf_data = [u \in {} |-> 0]
    /\ data \in {<<>>, <<RawTrace>>}
    /\ last = NoCall

AddTraceDash == ~Shown /\ AddTrace(MaxTraces, DashCalls)

\* lines 501-527: the app is built around the figure and started
ShowDash ==
    /\ ~Shown
    /\ data # <<>>
    /\ data' = [i \in 1..Len(data) |-> to_dict(data[i])]
    /\ last' = [NoCall EXCEPT !.op = "show_dash"]
    /\ UNCHANGED <<cfg, hf_data>>

\* lines 525-564: one relayout event; when the callback raises nothing is
\* returned and the front end keeps its figure
UpdateGraph ==
    /\ Shown
    /\ \E e \in DashEvents :
      \E r \in {update_graph(hf_data, data, e, cfg.prefix, cfg.suffix)} :
        /\ data' = IF r.err = "ok" THEN r.data ELSE data
        /\ last' = [NoCall EXCEPT !.op = "update_graph", !.err = r.err,
                                  !.event = <<e>>, !.calls = r.calls]
    /\ UNCHANGED <<cfg, hf_data>>

NextDash == AddTraceDash \/ ShowDash \/ UpdateGraph

SpecDash == InitDash /\ [][NextDash]_vars

----------------------------------------------------------------------------
(* Claims *)

HasEntry(i) == data[i].uid \in DOMAIN hf_data

EntryOf(i) == hf_data[data[i].uid]

\* the last call was a sync of an entry-backed trace that returned
Synced == last.op = "sync" /\ last.err = "ok" /\ HasEntry(last.i)

\* the last call admitted a trace and registered its entry
Registered == last.op = "add_trace" /\ last.err = "ok" /\ HasEntry(last.i)

DecorationChars == {cfg.prefix[k] : k \in 1..Len(cfg.prefix)}
                   \cup {cfg.suffix[k] : k \in 1..Len(cfg.suffix)}

\* no part of the prefix or of the suffix is on the name
Undecorated(name) == \A k \in 1..Len(name) : name[k] \notin DecorationChars

\* the name is prefix + an undecorated name + suffix
Decorated(name) ==
    /\ Len(name) >= Len(cfg.prefix) + Len(cfg.suffix)
    /\ startswith(name, cfg.prefix)
    /\ endswith(name, cfg.suffix)
    /\ Undecorated(SubSeq(name, Len(cfg.prefix) + 1, Len(name) - Len(cfg.suffix)))

\* C1: after every sync of a trace that has an entry, the trace name carries
\* the decoration (prefix and suffix) if and only if the sliced length exceeds
\* the entry's max_n_samples; otherwise no part of prefix or suffix is on it.
C1_DecorationIffAggregated ==
    Synced =>
        IF Len(last.rows) > EntryOf(last.i).max_n_samples
        THEN Decorated(data[last.i].name)
        ELSE Undecorated(data[last.i].name)

\* C2: a second sync with the same range leaves the trace (name, x, y,
\* hovertext) as the first sync left it.
C2_SyncIdempotent ==
    Synced =>
        check_update_trace_data(hf_data, data[last.i], last.start, last.stop,
                                cfg.prefix, cfg.suffix).trace = data[last.i]

\* C3: every trace of the figure that has an entry holds at most the entry's
\* max_n_samples points, and as many x as y.
C3_ViewWithinBudget ==
    \A i \in 1..Len(data) :
        HasEntry(i) =>
            /\ Len(data[i].x) <= EntryOf(i).max_n_samples
            /\ Len(data[i].x) = Len(data[i].y)

\* C3 witness: a sync sliced more rows than the budget and the view holds
\* exactly the budget
C3_Witness ==
    /\ Synced
    /\ Len(last.rows) > EntryOf(last.i).max_n_samples
    /\ Len(data[last.i].x) = EntryOf(last.i).max_n_samples

\* C5: a sync with no start and no end (as at admission) slices the whole
\* series: every stored row is handed to the downsampler.
C5_OpenRangeIsFullExtent ==
    ((Synced \/ Registered) /\ IsNone(last.start) /\ IsNone(last.stop)) =>
        last.rows = Rows(1, Len(EntryOf(last.i).hf_series.pos))

\* C6: the slice of a sync with bounds start <= end holds every stored sample
\* whose position p satisfies start <= p <= end.
C6_SliceCoversClosedRange ==
    (Synced /\ ~IsNone(last.start) /\ ~IsNone(last.stop)) =>
        LET pos == EntryOf(last.i).hf_series.pos IN
        \A r \in 1..Len(pos) :
            (last.start.t <= pos[r] /\ pos[r] <= last.stop.t) =>
                \E k \in 1..Len(last.rows) : last.rows[k] = r

\* the rows of a series inside [start, end], an absent bound being open
RowsWithin(pos, start, end) ==
    {r \in 1..Len(pos) : /\ (IsNone(start) \/ start.t <= pos[r])
                         /\ (IsNone(end) \/ pos[r] <= end.t)}

\* C7: a trace admitted with limit_to_view whose series is shorter than
\* max_n_samples has an entry, shows all its raw points at admission and,
\* after a sync, exactly the raw points inside the range.
C7_LimitToViewShowsRawSlice ==
    /\ (last.op = "add_trace" /\ last.err = "ok"
        /\ last.call[1].type = "scatter" /\ last.call[1].limit_to_view
        /\ Len(last.call[1].hf_x.pos) < effective_max(last.call[1], cfg)) =>
            /\ HasEntry(last.i)
            /\ data[last.i].x = last.call[1].hf_x.pos
            /\ data[last.i].y = last.call[1].hf_y.val
    /\ (Synced /\ Len(EntryOf(last.i).hf_series.pos) < EntryOf(last.i).max_n_samples) =>
            LET s == EntryOf(last.i).hf_series
                within == RowsWithin(s.pos, last.start, last.stop)
            IN  /\ data[last.i].x = Pick(s.pos, within, 1)
                /\ data[last.i].y = Pick(s.val, within, 1)

\* the points of a call that are not NaN
CleanCount(a) == Cardinality({k \in 1..Len(a.hf_y.val) : a.hf_y.val[k] # NaN})

\* C4: admitting a scatter trace registers an entry if and only if the number
\* of points left after NaN removal exceeds max_n_samples (the per-call value,
\* else the figure-wide one) or limit_to_view is set.
C4_StoresIffOverBudgetOrLimited ==
    (last.op = "add_trace" /\ last.err = "ok" /\ last.call[1].type = "scatter") =>
        (HasEntry(last.i) <=>
            \/ CleanCount(last.call[1]) > effective_max(last.call[1], cfg)
            \/ last.call[1].limit_to_view)

\* the x-axis a trace is drawn on: the anchor of its y-axis, "y" by default
AxisGroup(trace) ==
    layout[<<"y", "a", "x", "i", "s">>
           \o (IF trace.yaxis = None THEN <<>> ELSE DropFirst(trace.yaxis, 1))].anchor

\* C8: a batch sync filtered to one x-axis leaves every trace drawn on
\* another x-axis unchanged, whether or not the trace names its y-axis.
C8_FilterLeavesOtherGroups ==
    [][(last'.op = "batch" /\ last'.xaxis_filter # None) =>
          \A i \in 1..Len(data) :
              AxisGroup(data[i]) # xaxis_filter_short(last'.xaxis_filter)
                  => data'[i] = data[i]]_vars

\* C9: in a batch sync without filter, every entry-backed trace whose own sync
\* succeeds is re-synchronized, also when the sync of another trace fails.
C9_FailureIsIsolated ==
    [][(last'.op = "batch" /\ last'.xaxis_filter = None) =>
          \A i \in 1..Len(data) :
              LET r == check_update_trace_data(hf_data, data[i], last'.start,
                                               last'.stop, cfg.prefix, cfg.suffix)
              IN  (HasEntry(i) /\ r.err = "ok") => data'[i] = r.trace]_vars

Aware(b) == b.kind = "ts" /\ b.tz # "naive"

\* the call l was a sync of a temporal trace that has an entry
SlicedTime(l) ==
    /\ l.op = "sync"
    /\ HasEntry(l.i)
    /\ EntryOf(l.i).axis_type = "date"

\* C11: a sync of a zone-aware temporal series with a bound that is aware in
\* another zone fails, and the trace is left as it was: no slice is returned.
C11_ZoneMismatchFails ==
    [][(/\ SlicedTime(last')
        /\ EntryOf(last'.i).hf_series.tz # "naive"
        /\ \E b \in {last'.start, last'.stop} :
              Aware(b) /\ b.tz # EntryOf(last'.i).hf_series.tz)
       => /\ last'.err # "ok"
          /\ last'.rows = <<>>
          /\ data' = data]_vars

\* C11 witness: a sync failed although its start is in the series' zone: the
\* end alone names another zone
C11_Witness ==
    /\ SlicedTime(last)
    /\ last.err = "AssertionError"
    /\ Aware(last.start) /\ last.start.tz = EntryOf(last.i).hf_series.tz
    /\ Aware(last.stop) /\ last.stop.tz # EntryOf(last.i).hf_series.tz

\* C12: a sync whose two bounds are aware in zones different from each other
\* fails, whatever the zone of the series, a naive series included.
C12_BoundsOfTwoZonesFail ==
    (/\ SlicedTime(last)
     /\ Aware(last.start) /\ Aware(last.stop)
     /\ last.start.tz # last.stop.tz)
    => last.err # "ok"

\* C13: a sync that returns used each bound at its own wall-clock reading (a
\* naive bound localized to the series' zone, an aware bound of a naive series
\* with its zone dropped), and every row of the slice lies within the bounds.
C13_WallClockKept ==
    (SlicedTime(last) /\ last.err = "ok") =>
        LET s == EntryOf(last.i).hf_series IN
        /\ \A b \in {last.start, last.stop} :
              ~IsNone(b) => to_same_tz(b, s.tz).ts = Timestamp(s.tz, b.t)
        /\ \A k \in 1..Len(last.rows) :
              /\ IsNone(last.start) \/ last.start.t <= s.pos[last.rows[k]]
              /\ IsNone(last.stop) \/ s.pos[last.rows[k]] <= last.stop.t

\* C13 witness: a sync of a zone-aware series with a naive start and an
\* aware end returned rows
C13_Witness ==
    /\ SlicedTime(last) /\ last.err = "ok"
    /\ EntryOf(last.i).hf_series.tz # "naive"
    /\ last.start.kind = "ts" /\ last.start.tz = "naive"
    /\ Aware(last.stop)
    /\ last.start.t > 0
    /\ last.rows # <<>>

\* the last call was add_trace of a scatter trace
Admitting(l) == l.op = "add_trace" /\ l.call[1].type = "scatter"

\* the rows of a call whose value is not NaN
CleanRows(a) == {k \in 1..Len(a.hf_y.val) : a.hf_y.val[k] # NaN}

\* C14: the entry registered for a trace holds exactly the (position, value)
\* pairs of the input whose value is not NaN, in input order, and per-point
\* hovertext filtered by the same mask, whatever the type holding x and y.
C14_EntryHoldsCleanPairs ==
    (Registered /\ Admitting(last)
     /\ Len(last.call[1].hf_x.pos) = Len(last.call[1].hf_y.val)) =>
        LET a == last.call[1]
            e == EntryOf(last.i)
        IN  /\ e.hf_series.pos = Pick(a.hf_x.pos, CleanRows(a), 1)
            /\ e.hf_series.val = Pick(a.hf_y.val, CleanRows(a), 1)
            /\ (a.hf_hovertext.form # "None"
                /\ Len(a.hf_hovertext.v) = Len(a.hf_y.val)) =>
                   e.hovertext.v = Pick(a.hf_hovertext.v, CleanRows(a), 1)

\* C15: add_trace of a scatter trace with no point left after NaN removal
\* (no data given included) raises, registers no entry and adds no trace.
C15_NothingLeftFails ==
    [][(Admitting(last') /\ CleanRows(last'.call[1]) = {}) =>
          /\ last'.err # "ok"
          /\ hf_data' = hf_data
          /\ data' = data]_vars

\* the lengths of x, y and the per-point hovertext of a call agree
SameLengths(a) ==
    /\ Len(a.hf_x.pos) = Len(a.hf_y.val)
    /\ a.hf_hovertext.form # "None" => Len(a.hf_hovertext.v) = Len(a.hf_y.val)

\* C16: add_trace of a scatter trace whose x, y and hovertext differ in
\* length raises, whatever type holds the hovertext, and no entry of the
\* store holds a hovertext of another length than its series.
C16_LengthMismatchFails ==
    /\ (Admitting(last) /\ ~SameLengths(last.call[1])) => last.err # "ok"
    /\ \A u \in DOMAIN hf_data :
          hf_data[u].hovertext.form # "None" =>
              Len(hf_data[u].hovertext.v) = Len(hf_data[u].hf_series.pos)

NonDecreasing(s) == \A i, j \in 1..Len(s) : i < j => s[i] <= s[j]

\* C17: the positions of every entry are non-decreasing and stand in the
\* order of the input (all of them, or those of the rows without NaN); an
\* add_trace of unordered positions that raises leaves the store as it was.
C17_EntriesAreOrdered ==
    [][/\ \A u \in DOMAIN hf_data' : NonDecreasing(hf_data'[u].hf_series.pos)
       /\ \A u \in DOMAIN hf_data' \ DOMAIN hf_data :
             hf_data'[u].hf_series.pos \in
                 {last'.call[1].hf_x.pos,
                  Pick(last'.call[1].hf_x.pos, CleanRows(last'.call[1]), 1)}
       /\ (last'.op = "add_trace" /\ ~NonDecreasing(last'.call[1].hf_x.pos)
           /\ last'.err # "ok") => hf_data' = hf_data
      ]_vars

\* C17 witness: add_trace raised on positions out of order that were to be
\* stored: x and y of one length, no NaN, limit_to_view set
C17_Witness ==
    /\ Admitting(last)
    /\ last.err = "AssertionError"
    /\ ~NonDecreasing(last.call[1].hf_x.pos)
    /\ SameLengths(last.call[1])
    /\ CleanRows(last.call[1]) = 1..Len(last.call[1].hf_y.val)
    /\ last.call[1].limit_to_view
    /\ hf_data = <<>>

\* the traces of figure f that carry the uid u
Carriers(f, u) == {i \in 1..Len(f) : f[i].uid = u}

\* C18: every key of the store is the uid of exactly one trace of the
\* figure, no two traces carry the same uid, and the key of a new entry is
\* the uid of no trace the figure already held.
C18_UidsAreOneToOne ==
    [][/\ \A u \in DOMAIN hf_data' : Cardinality(Carriers(data', u)) = 1
       /\ \A i \in 1..Len(data') :
             data'[i].uid # "None" => Carriers(data', data'[i].uid) = {i}
       /\ \A u \in DOMAIN hf_data' \ DOMAIN hf_data : Carriers(data, u) = {}
      ]_vars

\* C18 witness: a second entry was registered next to the first
C18_Witness ==
    /\ Registered
    /\ Cardinality(DOMAIN hf_data) >= 2

\* C19: add_trace returns the figure whenever it admits a trace: registered
\* in the store, passed through, or of a non-eligible kind.
C19_ReturnsTheFigure ==
    (last.op = "add_trace" /\ last.err = "ok") => last.ret = "figure"

\* C20: no step removes an entry from the store or changes its series, axis
\* type, max_n_samples, downsampler or hovertext.
C20_EntriesAreKept ==
    [][\A u \in DOMAIN hf_data :
          /\ u \in DOMAIN hf_data'
          /\ hf_data'[u] = hf_data[u]]_vars

\* C20 witness: a batch sync re-synchronized the traces of two entries
C20_Witness ==
    /\ last.op = "batch"
    /\ last.err = "ok"
    /\ Cardinality({i \in last.visited : HasEntry(i)}) >= 2

\* C21: add_trace of a scatter trace with a budget of zero (given in the call
\* or as the figure's default) raises before the store is written and adds no
\* trace, so that no empty view is shown for it.
C21_ZeroBudgetFailsFast ==
    [][(Admitting(last') /\ effective_max(last'.call[1], cfg) = 0) =>
          /\ last'.err # "ok"
          /\ hf_data' = hf_data
          /\ data' = data]_vars

\* C22: add_trace of a trace of another kind than scatter / scattergl, given
\* x and y of one length (at least one point) and keywords the figure
\* accepts, succeeds, registers no entry and adds the trace with that x and y.
C22_OtherKindsPassThrough ==
    (/\ last.op = "add_trace"
     /\ last.call[1].type \notin {"scatter", "scattergl"}
     /\ last.call[1].trace_kwargs = "valid"
     /\ last.call[1].hf_x.container # "None"
     /\ last.call[1].hf_y.container # "None"
     /\ Len(last.call[1].hf_x.pos) = Len(last.call[1].hf_y.val)
     /\ Len(last.call[1].hf_x.pos) > 0)
    => /\ last.err = "ok"
       /\ ~HasEntry(last.i)
       /\ data[last.i].x = last.call[1].hf_x.pos
       /\ data[last.i].y = last.call[1].hf_y.val

\* C23: when the entry of a trace holds per-point hovertext, after a sync (the
\* one of admission included) the trace's hovertext is as long as its x, and
\* its k-th element is the stored hovertext of a sample at position x[k].
C23_HovertextFollowsView ==
    ((Synced \/ Registered) /\ EntryOf(last.i).hovertext.form # "None") =>
        LET e == EntryOf(last.i)
            t == data[last.i]
        IN  /\ Len(t.hovertext.v) = Len(t.x)
            /\ \A k \in 1..Len(t.x) :
                  \E r \in 1..Len(e.hf_series.pos) :
                      /\ r <= Len(e.hovertext.v)
                      /\ e.hf_series.pos[r] = t.x[k]
                      /\ e.hovertext.v[r] = t.hovertext.v[k]

\* C28: an add_trace that raises leaves the store and the traces of the
\* figure as they were, and every key of the store is the uid of a trace.
C28_FailedAdmitChangesNothing ==
    [][/\ (last'.op = "add_trace" /\ last'.err # "ok") =>
              hf_data' = hf_data /\ data' = data
       /\ \A u \in DOMAIN hf_data' : Carriers(data', u) # {}
      ]_vars

\* a bound at the first position of the axis of entry e: a sync from it to it
\* slices at most one row
FirstPosition(e) ==
    IF e.axis_type = "date" THEN Timestamp(e.hf_series.tz, 0) ELSE Num(0)

\* C29: when the sync of admission decorated the name the user gave, a sync
\* that strips the decoration restores exactly that name, also for a name
\* that begins with the prefix or ends with the suffix.
C29_StripRestoresGivenName ==
    (/\ Registered
     /\ last.call[1].name # None
     /\ Len(last.rows) > EntryOf(last.i).max_n_samples) =>
        LET b == FirstPosition(EntryOf(last.i))
            r == check_update_trace_data(hf_data, data[last.i], b, b,
                                         cfg.prefix, cfg.suffix)
        IN  r.err = "ok" /\ r.trace.name = last.call[1].name

\* the event of the last run of the Dash callback holds both ends of the
\* range of x-axis g
HasPair(e, g) == ~IsNone(e.start[g]) /\ ~IsNone(e.stop[g])

\* C30: a relayout event with no x-axis holding both range[0] and range[1]
\* and with no autorange key (only other keys, an empty event, or single ends
\* of ranges) runs no batch sync and leaves every trace as it was.
C30_IrrelevantEventIsNoOp ==
    [][(/\ last'.op = "update_graph"
        /\ \A g \in Axes : ~HasPair(last'.event[1], g)
        /\ last'.event[1].autorange = {}) =>
            last'.calls = <<>> /\ data' = data]_vars

\* C30 witness: the callback ran on an event of other keys only while an
\* entry-backed trace showed a narrowed view
C30_Witness ==
    /\ last.op = "update_graph"
    /\ last.event[1].other
    /\ \E i \in 1..Len(data) :
          HasEntry(i) /\ data[i].x # <<>>
                      /\ data[i].x[1] # EntryOf(i).hf_series.pos[1]

\* C26: a relayout event with an autorange key and no x-axis holding both
\* ends of a range runs one batch sync with no start, no end and no filter,
\* after which every entry-backed trace shows the reduction of all its
\* stored samples.
C26_AutorangeShowsFullExtent ==
    [][(/\ last'.op = "update_graph"
        /\ last'.event[1].autorange # {}
        /\ \A g \in Axes : ~HasPair(last'.event[1], g)) =>
            /\ last'.err = "ok"
            /\ last'.calls = <<[xaxis_filter |-> None, start |-> NoBound,
                                stop |-> NoBound]>>
            /\ \A i \in 1..Len(data) :
                  HasEntry(i) =>
                      LET e    == EntryOf(i)
                          rows == downsample(Rows(1, Len(e.hf_series.pos)),
                                             e.max_n_samples)
                      IN  data'[i].x = [k \in 1..Len(rows) |-> e.hf_series.pos[rows[k]]]
      ]_vars

\* C27: a relayout event that the callback handles runs, for every x-axis
\* with both ends of its range in the event, a batch sync filtered to that
\* axis with its start and end; afterwards every entry-backed trace drawn on
\* such an axis shows the slice of that axis's range, and every other trace
\* is as it was.
C27_RangePerAxis ==
    [][last'.op = "update_graph" =>
          LET e == last'.event[1] IN
          /\ \A g \in Axes :
                HasPair(e, g) =>
                    \E k \in 1..Len(last'.calls) :
                        last'.calls[k] = [xaxis_filter |-> xaxis(g),
                                          start |-> e.start[g], stop |-> e.stop[g]]
          /\ (last'.err = "ok" /\ \E g \in Axes : HasPair(e, g)) =>
                \A i \in 1..Len(data) :
                    LET own == CHOOSE g \in Axes : AxisGroup(data[i]) = xaxis_filter_short(xaxis(g))
                        r   == check_update_trace_data(hf_data, data[i], e.start[own],
                                                       e.stop[own], cfg.prefix, cfg.suffix)
                    IN  IF HasEntry(i) /\ HasPair(e, own)
                        THEN data'[i].x = r.trace.x /\ data'[i].y = r.trace.y
                        ELSE data'[i].x = data[i].x /\ data'[i].y = data[i].y
      ]_vars

\* C24: a run of the Dash callback leaves the hovertext of a trace whose
\* entry holds no hovertext as it was: no hovertext key is added to a trace
\* that has none.
C24_NoHovertextStaysAbsent ==
    [][last'.op = "update_graph" =>
          \A i \in 1..Len(data) :
              (HasEntry(i) /\ EntryOf(i).hovertext.form = "None") =>
                  data'[i].hovertext = data[i].hovertext]_vars


\* the name 'trace <k>'
DefaultName(k) ==
    <<"t", "r", "a", "c", "e", " ">>
    \o <<CASE k = 0 -> "0" [] k = 1 -> "1" [] k = 2 -> "2" [] OTHER -> "3">>

\* the last call admitted a scatter trace that came without a name
AdmittedUnnamed ==
    /\ last.op = "add_trace"
    /\ last.err = "ok"
    /\ last.call[1].type = "scatter"
    /\ last.call[1].name = None

\* the trace is called 'trace <k>', bare or decorated by the first sync
NamedByPosition(trace, k) ==
    trace.name \in {DefaultName(k), cfg.prefix \o DefaultName(k) \o cfg.suffix}

\* C25 as stated: every scatter trace admitted without a name leaves
\* admission called 'trace <k>', k the number of traces the figure held.
C25_UnnamedGetsPositionName ==
    AdmittedUnnamed => NamedByPosition(data[last.i], last.i - 1)

\* C25: a scatter trace admitted without a name that admission registers in
\* the store leaves admission called 'trace <k>' (decorated when the first
\* sync reduced it), k the number of traces the figure held; one that is
\* passed through keeps no name; and every trace with an entry has a name.
C25_StoredUnnamedGetsPositionName ==
    /\ AdmittedUnnamed =>
          IF HasEntry(last.i)
          THEN NamedByPosition(data[last.i], last.i - 1)
          ELSE data[last.i].name = None
    /\ \A i \in 1..Len(data) : HasEntry(i) => data[i].name # None

\* C25 witness: the second trace of a figure came without a name, was
\* registered and reduced, and is called 'trace 1' with the prefix
C25_Witness ==
    /\ AdmittedUnnamed
    /\ last.i = 2
    /\ HasEntry(2)
    /\ data[2].name = cfg.prefix \o DefaultName(1)

====
